---- MODULE Spec2Model ----
(***************************************************************************)
(* LAHSA_Dash.py: the data loaded at import time (df, spa_geo), the        *)
(* dropdown built from it, and the single Dash callback update_visuals     *)
(* that turns the dropdown's value into four data views (the frames handed *)
(* to plotly) and the value written back to the dropdown.                  *)
(***************************************************************************)
EXTENDS Integers, Sequences, FiniteSets, TLC

VARIABLES
    df,                \* the Bed Records frame
    spa_geo,           \* the Region Boundaries frame
    dropdown_options,  \* the option values of slicer-dropdown
    value,             \* the value property of slicer-dropdown
    result,            \* what the last run of the callback returned
    df0,               \* history: df as loaded
    spa_geo0,          \* history: spa_geo as loaded
    all_taken,         \* history: runs of the 'ALL' branch since the last selection
    changes            \* history: selections made so far: "none", "one" or "many"

vars ==
    <<df, spa_geo, dropdown_options, value, result, df0, spa_geo0, all_taken, changes>>

-----------------------------------------------------------------------------
(* Bounds of the model *)

\* longest Bed Record table read from the CSV file
MaxRecords == 2
\* longest selection list handed to the callback
MaxSel == 2

-----------------------------------------------------------------------------
(* Values *)

\* pandas' missing value (float nan), what Series.map gives for an unmapped key
NaN == "NaN"

\* the 'Select All' option's value
ALL == "ALL"

\* Python's None as a callback argument; a list argument is List(items)
None == [isNone |-> TRUE, items |-> <<>>]

List(items) == [isNone |-> FALSE, items |-> items]

spa_dict ==
    [c \in {"1", "2", "3", "4", "5", "6", "7", "8"} |->
        CASE c = "1" -> "Antelope Valley"
          [] c = "2" -> "San Fernando Valley"
          [] c = "3" -> "San Gabriel Valley"
          [] c = "4" -> "Metro Los Angeles"
          [] c = "5" -> "West Los Angeles"
          [] c = "6" -> "South Los Angeles"
          [] c = "7" -> "East Los Angeles"
          [] c = "8" -> "South Bay/Harbor"]

RegionNames == {spa_dict[c] : c \in DOMAIN spa_dict}

\* the region names in Python's string order, the order groupby sorts its keys in
SortedNames ==
    << "Antelope Valley", "East Los Angeles", "Metro Los Angeles",
       "San Fernando Valley", "San Gabriel Valley", "South Bay/Harbor",
       "South Los Angeles", "West Los Angeles" >>

\* the housing types of the input rows, in Python's string order
SortedHousingTypes == << "Emergency Shelter", "Transitional Housing" >>

-----------------------------------------------------------------------------
(* Input files: the rows the two files may hold *)

\* SPA codes of the CSV rows after astype(str): two table codes and one outside it
CsvCodes == {"1", "2", "9"}

\* SPA codes of the GeoJSON features: one shared with the CSV, one without
\* Bed Records, one outside the table
GeoCodes == {"1", "3", "9"}

CsvRow(c, t, u, p, b) ==
    [SPA |-> c, HousingType |-> t, UtilizationRate |-> u, PITCount |-> p,
     TotalBeds |-> b]

\* the rows a CSV file is made of: SPA code, Housing Type, Utilization Rate,
\* PIT Count, Total Beds
CsvRows ==
    { CsvRow("1", "Emergency Shelter", 80, 80, 100),
      CsvRow("1", "Emergency Shelter", 70, 7, 10),
      CsvRow("1", "Transitional Housing", 90, 45, 50),
      CsvRow("2", "Emergency Shelter", 70, 7, 10),
      CsvRow("2", "Transitional Housing", 90, 45, 50),
      CsvRow("9", "Emergency Shelter", 80, 80, 100) }

SeqsUpTo(S, n) == UNION {[1..k -> S] : k \in 0..n}

CsvFiles == SeqsUpTo(CsvRows, MaxRecords)

GeoRow(c) == [SPA |-> c, geometry |-> c]

\* the GeoJSON file: at least one feature, one feature (SPA code, polygon) per
\* region code, in file order
GeoFiles ==
    {[i \in DOMAIN g |-> GeoRow(g[i])] :
        g \in {h \in SeqsUpTo(GeoCodes, Cardinality(GeoCodes)) :
                    h # <<>> /\ \A i, j \in DOMAIN h : i # j => h[i] # h[j]}}

-----------------------------------------------------------------------------
(* pandas helpers *)

\* Series.map(spa_dict) on one value
MapSPA(code) == IF code \in DOMAIN spa_dict THEN spa_dict[code] ELSE NaN

RECURSIVE UniqueFrom(_, _, _)
UniqueFrom(s, i, acc) ==
    IF i > Len(s) THEN acc
    ELSE UniqueFrom(s, i + 1,
                    IF \E k \in DOMAIN acc : acc[k] = s[i] THEN acc
                    ELSE Append(acc, s[i]))

\* Series.unique().tolist(): the distinct values in order of first appearance,
\* the missing value among them
Unique(s) == UniqueFrom(s, 1, <<>>)

Column(frame, col) == [i \in DOMAIN frame |-> frame[i][col]]

Range(s) == {s[i] : i \in DOMAIN s}

\* Series.isin(values) on one cell: nan matches a nan among the values
IsIn(v, values) == v \in Range(values)

RECURSIVE SumOver(_, _)
SumOver(frame, col) ==
    IF frame = <<>> THEN 0
    ELSE frame[1][col] + SumOver(Tail(frame), col)

RECURSIVE GCD(_, _)
GCD(a, b) == IF b = 0 THEN a ELSE GCD(b, a % b)

\* the column's sum where its mean is due
MeanOfAsSum(frame, col) == [n |-> SumOver(frame, col), d |-> 1]

\* the mean of a non-empty column, as the fraction n/d in lowest terms
MeanOf(frame, col) ==
    LET s == SumOver(frame, col)
        g == GCD(s, Len(frame))
    IN  [n |-> s \div g, d |-> Len(frame) \div g]

\* groupby keys: the non-missing values of the key column, sorted
GroupKeys(frame) ==
    SelectSeq(SortedNames, LAMBDA n : \E i \in DOMAIN frame : frame[i].SPA = n)

RowsOf(frame, spa) == SelectSeq(frame, LAMBDA r : r.SPA = spa)

RECURSIVE Concat(_)
Concat(ss) == IF ss = <<>> THEN <<>> ELSE ss[1] \o Concat(Tail(ss))

\* the Utilization Rate of a boundary row no group matched
MissingRate == [n |-> 0, d |-> 0]

-----------------------------------------------------------------------------
(* Module level: loading, the name mapping and the dropdown *)

\* df['SPA'].map(spa_dict) / spa_geo['SPA'].map(spa_dict)
MapFrame(frame) == [i \in DOMAIN frame |-> [frame[i] EXCEPT !.SPA = MapSPA(@)]]

\* the option values: 'ALL', then every distinct value of df['SPA']
DropdownOptions(d) == <<ALL>> \o Unique(Column(d, "SPA"))

\* the dropdown's initial value
DefaultValue(d) == List(Unique(Column(d, "SPA")))

-----------------------------------------------------------------------------
(* update_visuals, statement by statement *)

\* the expansion to every option of the dropdown, 'ALL' among them
ExpandAllToOptions(items, d) ==
    IF ALL \in Range(items) THEN <<ALL>> \o Unique(Column(d, "SPA")) ELSE items

\* the expansion with its values sorted, the missing value last
ExpandAllSorted(items, d) ==
    IF ALL \in Range(items)
    THEN SelectSeq(SortedNames \o <<NaN>>, LAMBDA n : n \in Range(Column(d, "SPA")))
    ELSE items

\* if 'ALL' in selected_values: selected_values = df['SPA'].unique().tolist()
ExpandAll(items, d) ==
    IF ALL \in Range(items) THEN Unique(Column(d, "SPA")) ELSE items

\* the filter without its else branch: an empty selection keeps no row
FilteredDfAlways(d, items) == SelectSeq(d, LAMBDA r : IsIn(r.SPA, items))

\* the filter left out: every selection keeps every row
FilteredDfNever(d, items) == d

\* df[df['SPA'].isin(selected_values)] if selected_values else df
FilteredDf(d, items) ==
    IF items # <<>> THEN SelectSeq(d, LAMBDA r : IsIn(r.SPA, items)) ELSE d

\* df.groupby('SPA').agg({'Utilization Rate': 'mean'}).reset_index()
Grouped(d) ==
    LET keys == GroupKeys(d)
    IN  [k \in DOMAIN keys |->
            [SPA |-> keys[k],
             UtilizationRate |-> MeanOf(RowsOf(d, keys[k]), "UtilizationRate")]]

\* the rows a left merge makes of one left row
MergeRow(left, grouped) ==
    LET hits == SelectSeq(grouped, LAMBDA g : g.SPA = left.SPA)
    IN  IF hits = <<>>
        THEN << [SPA |-> left.SPA, geometry |-> left.geometry,
                 UtilizationRate |-> MissingRate] >>
        ELSE [k \in DOMAIN hits |->
                [SPA |-> left.SPA, geometry |-> left.geometry,
                 UtilizationRate |-> hits[k].UtilizationRate]]

\* spa_geo.merge(grouped, left_on='SPA', right_on='SPA', how='left')
Merged(g, grouped) ==
    LET rows == Concat([i \in DOMAIN g |-> MergeRow(g[i], grouped)])
    IN  [i \in DOMAIN rows |->
            [index |-> i, SPA |-> rows[i].SPA, geometry |-> rows[i].geometry,
             UtilizationRate |-> rows[i].UtilizationRate]]

\* merged[merged['SPA'].isin(selected_values)] if selected_values else merged
FilteredGeo(merged, items) ==
    IF items # <<>> THEN SelectSeq(merged, LAMBDA r : IsIn(r.SPA, items)) ELSE merged

\* filtered_df.groupby(['SPA', 'Housing Type']).agg({'Utilization Rate': 'mean'})
HousingGrouped(fd) ==
    LET keys == GroupKeys(fd)
        OfType(spa, t) == SelectSeq(RowsOf(fd, spa), LAMBDA r : r.HousingType = t)
        types(spa) ==
            SelectSeq(SortedHousingTypes, LAMBDA t : OfType(spa, t) # <<>>)
    IN  Concat([k \in DOMAIN keys |->
            [j \in DOMAIN types(keys[k]) |->
                [SPA |-> keys[k], HousingType |-> types(keys[k])[j],
                 UtilizationRate |->
                    MeanOf(OfType(keys[k], types(keys[k])[j]), "UtilizationRate")]]])

\* the subtraction with its operands exchanged
EmptyBedsExchanged(total, pit) == pit - total

\* bed_grouped['Empty Beds'] = bed_grouped['Total Beds'] - bed_grouped['PIT Count']
EmptyBeds(total, pit) == total - pit

\* filtered_df.groupby('SPA').agg(sums), 'Empty Beds' added, 'PIT Count' renamed
BedGrouped(fd) ==
    LET keys == GroupKeys(fd)
    IN  [k \in DOMAIN keys |->
            LET pit == SumOver(RowsOf(fd, keys[k]), "PITCount")
                total == SumOver(RowsOf(fd, keys[k]), "TotalBeds")
            IN  [SPA |-> keys[k], UtilizedBeds |-> pit, TotalBeds |-> total,
                 EmptyBeds |-> EmptyBeds(total, pit)]]

\* bed_grouped.melt(id_vars='SPA', value_vars=['Utilized Beds', 'Empty Beds'], ...)
BedMelted(bg) ==
    [k \in DOMAIN bg |->
        [SPA |-> bg[k].SPA, BedStatus |-> "Utilized Beds",
         BedCount |-> bg[k].UtilizedBeds]]
    \o
    [k \in DOMAIN bg |->
        [SPA |-> bg[k].SPA, BedStatus |-> "Empty Beds", BedCount |-> bg[k].EmptyBeds]]

\* what a call that raised leaves behind: no outputs
Raised(selected_values, error) ==
    [status |-> error, selected_values |-> selected_values, all_branch |-> FALSE,
     map_fig |-> <<>>, bar_fig |-> <<>>, housing_type_bar_fig |-> <<>>,
     bed_count_bar_fig |-> <<>>, value |-> None]

\* the call's five outputs: the frame behind each figure and the returned selection;
\* membership in None raises TypeError before anything else runs
Outputs(selected_values, d, g) ==
    IF selected_values.isNone THEN Raised(selected_values, "TypeError")
    ELSE
        LET items == ExpandAll(selected_values.items, d)
            filtered_geo == FilteredGeo(Merged(g, Grouped(d)), items)
        IN  [status |-> "ok", selected_values |-> selected_values,
             all_branch |-> ALL \in Range(selected_values.items),
             map_fig |-> filtered_geo, bar_fig |-> filtered_geo,
             housing_type_bar_fig |-> HousingGrouped(FilteredDf(d, items)),
             bed_count_bar_fig |-> BedMelted(BedGrouped(FilteredDf(d, items))),
             value |-> List(items)]

-----------------------------------------------------------------------------
(* The state machine *)

\* the values a selection may hold: the sentinel, a region with records and a
\* boundary, one with records only, one with a boundary only, the missing value
SelectionValues ==
    {ALL, "Antelope Valley", "San Fernando Valley", "San Gabriel Valley", NaN}

\* what the callback may be handed: None, or a list without repeats (the names in
\* it need not be options of the dropdown)
Selections ==
    {None} \cup
    {List(s) : s \in {t \in SeqsUpTo(SelectionValues, MaxSel) :
                        \A i, j \in DOMAIN t : i # j => t[i] # t[j]}}

\* the missing value is in a selection only where it is an option to select
CanBeGiven(selected_values) ==
    NaN \in Range(selected_values.items) => NaN \in Range(dropdown_options)

NoResult == Raised(None, "none")

\* startup: both files are read, the SPA codes become names, the dropdown is built
Loaded(csv, geo) ==
    /\ df = MapFrame(csv)
    /\ spa_geo = MapFrame(geo)
    /\ dropdown_options = DropdownOptions(df)
    /\ result = NoResult
    /\ df0 = df
    /\ spa_geo0 = spa_geo
    /\ all_taken = 0
    /\ changes = "none"

\* any pair of input files, and the dropdown holding its default or any selection
Init ==
    /\ \E csv \in CsvFiles, geo \in GeoFiles : Loaded(csv, geo)
    /\ value \in {v \in Selections \cup {DefaultValue(df)} : CanBeGiven(v)}

\* a run that filters the module's own frame instead of a copy of it
update_visuals_in_place(selected_values) ==
    /\ result' = Outputs(selected_values, df, spa_geo)
    /\ value' = IF result'.status = "ok" THEN result'.value ELSE value
    /\ df' = IF result'.status = "ok" THEN FilteredDf(df, result'.value.items) ELSE df
    /\ UNCHANGED <<spa_geo, dropdown_options, df0, spa_geo0>>

\* one run of the callback: the outputs are computed from the module's frames, which
\* it only reads, and the fifth output is written to the dropdown's value
update_visuals(selected_values) ==
    /\ result' = Outputs(selected_values, df, spa_geo)
    /\ value' = IF result'.status = "ok" THEN result'.value ELSE value
    /\ UNCHANGED <<df, spa_geo, dropdown_options, df0, spa_geo0>>

\* the callback runs on the dropdown's current value: the first call, and every call
\* on the value the previous call wrote back
Fire ==
    /\ update_visuals(value)
    /\ all_taken' = all_taken + IF result'.all_branch THEN 1 ELSE 0
    /\ UNCHANGED changes

Next == Fire

Spec == Init /\ [][Next]_vars

-----------------------------------------------------------------------------
(* A session: any sequence of calls with any selections, on a few small files *)

SessionCsvRows == {r \in CsvRows : r.HousingType = "Transitional Housing"}

SessionCsvFiles == SeqsUpTo(SessionCsvRows, MaxRecords)

SessionGeoFiles == {<<GeoRow("1"), GeoRow("3")>>, <<GeoRow("9"), GeoRow("1")>>}

InitSession ==
    /\ \E csv \in SessionCsvFiles, geo \in SessionGeoFiles : Loaded(csv, geo)
    /\ value = DefaultValue(df)

\* the dropdown's value changes to a new selection and the callback runs on it
Select(selected_values) ==
    /\ CanBeGiven(selected_values)
    /\ update_visuals(selected_values)
    /\ all_taken' = IF result'.all_branch THEN 1 ELSE 0
    /\ changes' = IF changes = "none" THEN "one" ELSE "many"

NextSession ==
    \/ \E selected_values \in Selections : Select(selected_values)
    \/ Fire

SpecSession == InitSession /\ [][NextSession]_vars

-----------------------------------------------------------------------------
(* Vocabulary of the properties, stated on the loaded data directly *)

Returned == result.status = "ok"

\* the selection the last call was given, and the one it returned
Given == result.selected_values.items

Normalized == result.value.items

Rank(name) == CHOOSE i \in DOMAIN SortedNames : SortedNames[i] = name

\* the positions of a region's Bed Records in df
RecordsOf(r) == {i \in DOMAIN df : df[i].SPA = r}

RECURSIVE Total(_, _)
Total(rows, col) ==
    IF rows = {} THEN 0
    ELSE LET i == CHOOSE k \in rows : TRUE
         IN  df[i][col] + Total(rows \ {i}, col)

\* rate is the mean Utilization Rate of all Bed Records of region r
IsFullMean(rate, r) ==
    /\ rate.d > 0
    /\ rate.n * Cardinality(RecordsOf(r)) = rate.d * Total(RecordsOf(r), "UtilizationRate")

\* the positions of a view's rows for one region value
EntriesOf(view, r) == {i \in DOMAIN view : view[i].SPA = r}

NoRepeats(s) == \A i, j \in DOMAIN s : i # j => s[i] # s[j]

-----------------------------------------------------------------------------
(* C1 *)

\* C1 as stated, in its clauses on the names (the clause on missing entries is
\* C5's): whenever the selection given holds 'ALL', the returned selection holds no
\* 'ALL' and every region name of the Bed Records once, the names in sorted order.
C1_AllGivesSortedNames ==
    (Returned /\ ALL \in Range(Given)) =>
        /\ ALL \notin Range(Normalized)
        /\ \A i \in DOMAIN df : df[i].SPA \in RegionNames => df[i].SPA \in Range(Normalized)
        /\ \A i, j \in DOMAIN Normalized :
                (i < j /\ Normalized[i] \in RegionNames /\ Normalized[j] \in RegionNames)
                    => Rank(Normalized[i]) < Rank(Normalized[j])

\* C1 amended: whenever the selection given holds 'ALL', the returned selection
\* is the list of the distinct SPA values of the Bed Records in order of first
\* appearance (not sorted): each once, no 'ALL', and the missing value among them
\* exactly when a Bed Record has a code outside the table.
C1_AllGivesUniqueInFileOrder ==
    (Returned /\ ALL \in Range(Given)) =>
        /\ NoRepeats(Normalized)
        /\ ALL \notin Range(Normalized)
        /\ Range(Normalized) = {df[i].SPA : i \in DOMAIN df}
        /\ \A i, j \in DOMAIN Normalized :
                i < j =>
                    \E k \in RecordsOf(Normalized[i]) :
                        \A m \in RecordsOf(Normalized[j]) : k < m

\* 'ALL' given together with a region name, returned as two names out of sorted order
C1_Witness ==
    /\ Returned
    /\ Given = <<"Antelope Valley", ALL>>
    /\ Normalized = <<"San Fernando Valley", "Antelope Valley">>

-----------------------------------------------------------------------------
(* C2 *)

\* C2 as stated: for every selection S and every region of S with a Bed Record,
\* the region-average view holds exactly one entry for it, carrying the mean over
\* all its Bed Records, and holds no entry for a region outside S.
C2_OneFullMeanPerSelectedRegion ==
    Returned =>
        /\ \A r \in Range(Normalized) \cap RegionNames :
                RecordsOf(r) # {} =>
                    /\ Cardinality(EntriesOf(result.bar_fig, r)) = 1
                    /\ \A i \in EntriesOf(result.bar_fig, r) :
                            IsFullMean(result.bar_fig[i].UtilizationRate, r)
        /\ \A i \in DOMAIN result.bar_fig : result.bar_fig[i].SPA \in Range(Normalized)

\* C2 amended: for every selection S and every region of S with a Bed Record, the
\* region-average view holds one entry per Region Boundary row of that region (none
\* when it has no boundary row), each carrying the mean over all its Bed Records
\* whatever else S holds; a non-empty S leaves no entry whose SPA value is outside
\* S, an empty S leaves one entry per boundary row.
C2_FullMeanPerBoundaryRow ==
    Returned =>
        /\ \A r \in Range(Normalized) \cap RegionNames :
                RecordsOf(r) # {} =>
                    /\ Cardinality(EntriesOf(result.bar_fig, r))
                         = Cardinality(EntriesOf(spa_geo, r))
                    /\ \A i \in EntriesOf(result.bar_fig, r) :
                            IsFullMean(result.bar_fig[i].UtilizationRate, r)
        /\ Normalized # <<>> =>
                \A i \in DOMAIN result.bar_fig :
                    result.bar_fig[i].SPA \in Range(Normalized)
        /\ Normalized = <<>> => Len(result.bar_fig) = Len(spa_geo)

\* region A with records at 80 and 90, A alone selected: one bar, 85
C2_Witness ==
    /\ Returned
    /\ Given = <<"Antelope Valley">>
    /\ Cardinality(RecordsOf("Antelope Valley")) = 2
    /\ Len(result.bar_fig) = 1
    /\ result.bar_fig[1].SPA = "Antelope Valley"
    /\ result.bar_fig[1].UtilizationRate = [n |-> 85, d |-> 1]

-----------------------------------------------------------------------------
(* C3 *)

\* the outputs of a call given 'ALL' alone, the full set of regions
ForAll == Outputs(List(<<ALL>>), df, spa_geo)

\* C3 as stated: a call given the empty selection returns the four views of the
\* full set of regions, none of them empty when both files hold rows.
C3_EmptyEqualsAll ==
    (Returned /\ Given = <<>>) =>
        /\ result.map_fig = ForAll.map_fig
        /\ result.bar_fig = ForAll.bar_fig
        /\ result.housing_type_bar_fig = ForAll.housing_type_bar_fig
        /\ result.bed_count_bar_fig = ForAll.bed_count_bar_fig
        /\ (df # <<>> /\ spa_geo # <<>>) =>
                /\ result.map_fig # <<>>
                /\ result.bar_fig # <<>>
                /\ result.housing_type_bar_fig # <<>>
                /\ result.bed_count_bar_fig # <<>>

\* C3 amended: a call given the empty selection skips the filter in every view:
\* the housing-type and bed-count views are those of the full set of regions and
\* hold every region name that has a Bed Record (so they are empty only when no
\* Bed Record has a code of the table); the view behind the map and the
\* region-average bar holds every Region Boundary row, in file order, which
\* includes the rows the full set of regions leaves out (a boundary whose region
\* has no Bed Record or whose code is outside the table).
C3_EmptySkipsFilter ==
    (Returned /\ Given = <<>>) =>
        /\ result.housing_type_bar_fig = ForAll.housing_type_bar_fig
        /\ result.bed_count_bar_fig = ForAll.bed_count_bar_fig
        /\ \A i \in DOMAIN df :
                df[i].SPA \in RegionNames =>
                    /\ EntriesOf(result.housing_type_bar_fig, df[i].SPA) # {}
                    /\ EntriesOf(result.bed_count_bar_fig, df[i].SPA) # {}
        /\ Len(result.map_fig) = Len(spa_geo)
        /\ \A i \in DOMAIN spa_geo :
                /\ result.map_fig[i].SPA = spa_geo[i].SPA
                /\ result.map_fig[i].geometry = spa_geo[i].geometry
        /\ result.bar_fig = result.map_fig
        /\ \A i \in DOMAIN ForAll.map_fig :
                \E j \in DOMAIN result.map_fig :
                    /\ result.map_fig[j].SPA = ForAll.map_fig[i].SPA
                    /\ result.map_fig[j].geometry = ForAll.map_fig[i].geometry
                    /\ result.map_fig[j].UtilizationRate = ForAll.map_fig[i].UtilizationRate

\* the empty selection on files where a boundary's region has no Bed Record: the
\* aggregated views are filled and the map view holds a row 'ALL' leaves out
C3_Witness ==
    /\ Returned
    /\ Given = <<>>
    /\ result.housing_type_bar_fig # <<>>
    /\ result.bed_count_bar_fig # <<>>
    /\ EntriesOf(result.map_fig, "San Gabriel Valley") # {}
    /\ EntriesOf(ForAll.map_fig, "San Gabriel Valley") = {}

-----------------------------------------------------------------------------
(* C4 *)

\* the bed counts of the whole of df, the selection ignored
FullBedCounts == BedMelted(BedGrouped(df))

\* C4: for a call given a non-empty list of region names, the bed-count view is
\* the bed-count aggregation of the whole of df restricted to the regions given:
\* the same rows with the same sums, and no region outside the selection.
C4_FilterCommutesWithBedCounts ==
    (Returned /\ Given # <<>> /\ Range(Given) \subseteq RegionNames) =>
        /\ result.bed_count_bar_fig
             = SelectSeq(FullBedCounts, LAMBDA row : row.SPA \in Range(Given))
        /\ \A i \in DOMAIN result.bed_count_bar_fig :
                result.bed_count_bar_fig[i].SPA \in Range(Given)

\* one of two regions with Bed Records selected, together with a region without:
\* bars for the first alone
C4_Witness ==
    /\ Returned
    /\ Given = <<"San Gabriel Valley", "San Fernando Valley">>
    /\ RecordsOf("Antelope Valley") # {}
    /\ Len(result.bed_count_bar_fig) = 2
    /\ Len(FullBedCounts) = 4

-----------------------------------------------------------------------------
(* C5 *)

\* C5 as stated: a row whose code is outside the table shows in nothing keyed by
\* region name: no option of the dropdown is the missing value, and no call
\* returns it in a row of one of the four views or in the returned selection.
C5_UnknownCodesDropped ==
    /\ NaN \notin Range(dropdown_options)
    /\ Returned =>
        /\ EntriesOf(result.map_fig, NaN) = {}
        /\ EntriesOf(result.bar_fig, NaN) = {}
        /\ EntriesOf(result.housing_type_bar_fig, NaN) = {}
        /\ EntriesOf(result.bed_count_bar_fig, NaN) = {}
        /\ (Range(Given) \subseteq RegionNames \cup {ALL}) => NaN \notin Range(Normalized)

-----------------------------------------------------------------------------
(* C6 *)

\* C6: when each call is given the value the call before wrote to the dropdown,
\* the value the first call returns holds no 'ALL' and every later call returns it
\* unchanged; the 'ALL' branch runs at most once in the chain, and a selection
\* without 'ALL' is returned as given.
C6_FeedbackStabilises ==
    /\ [](Returned =>
            /\ ALL \notin Range(Normalized)
            /\ value = result.value
            /\ (ALL \notin Range(Given) => result.value = result.selected_values))
    /\ [](all_taken <= 1)
    /\ [][Returned =>
            /\ result'.status = "ok"
            /\ ~result'.all_branch
            /\ result'.selected_values = value
            /\ result'.value = value
            /\ value' = value]_vars

\* the second call of a chain that began with 'ALL': given the expanded list, it
\* returns it as given
C6_Witness ==
    /\ Returned
    /\ all_taken = 1
    /\ ~result.all_branch
    /\ Len(Given) = 2
    /\ result.value = result.selected_values

-----------------------------------------------------------------------------
(* C7 *)

\* C7: in any sequence of calls with any selections, no call changes df or
\* spa_geo, which stay as loaded, and every call returns what a call with its
\* selection returns on the frames as loaded, whatever calls ran before it: two
\* calls given the same selection return the same five outputs.
C7_CallsLeaveFramesAlone ==
    /\ df = df0
    /\ spa_geo = spa_geo0
    /\ result.status # "none" => result = Outputs(result.selected_values, df0, spa_geo0)

\* a call after at least two changes of selection, returning one region's bars out
\* of a file that holds two regions
C7_Witness ==
    /\ changes = "many"
    /\ Returned
    /\ Given = <<"San Fernando Valley">>
    /\ RecordsOf("Antelope Valley") # {}
    /\ Len(result.bed_count_bar_fig) = 2

-----------------------------------------------------------------------------
(* C8 *)

\* C8 as stated: for a call given a non-empty selection S, the map view holds
\* exactly the Region Boundary rows whose region name is in S, each once: a row
\* whose region has Bed Records carries the mean over all of them, a row whose
\* region has none carries a missing rate.
C8_LeftJoinRestrictedToSelection ==
    (Returned /\ Normalized # <<>>) =>
        LET kept == {j \in DOMAIN spa_geo :
                        spa_geo[j].SPA \in RegionNames \cap Range(Normalized)}
        IN  /\ Len(result.map_fig) = Cardinality(kept)
            /\ \A j \in kept :
                    \E i \in DOMAIN result.map_fig :
                        /\ result.map_fig[i].index = j
                        /\ result.map_fig[i].SPA = spa_geo[j].SPA
                        /\ result.map_fig[i].geometry = spa_geo[j].geometry
                        /\ IF RecordsOf(spa_geo[j].SPA) # {}
                           THEN IsFullMean(result.map_fig[i].UtilizationRate,
                                           spa_geo[j].SPA)
                           ELSE result.map_fig[i].UtilizationRate = MissingRate

-----------------------------------------------------------------------------
(* C9 *)

\* C9: every region of the bed-count view has exactly two rows in it, 'Utilized
\* Beds' with the sum of PIT Count over the region's records and 'Empty Beds' with
\* the sum of Total Beds less the sum of PIT Count, so the two counts add up to
\* the region's summed Total Beds.
C9_BedCountLongForm ==
    Returned =>
        \A i \in DOMAIN result.bed_count_bar_fig :
            LET r == result.bed_count_bar_fig[i].SPA
                rows == EntriesOf(result.bed_count_bar_fig, r)
                CountOf(status) ==
                    {result.bed_count_bar_fig[k].BedCount :
                        k \in {m \in rows : result.bed_count_bar_fig[m].BedStatus = status}}
            IN  /\ Cardinality(rows) = 2
                /\ CountOf("Utilized Beds") = {Total(RecordsOf(r), "PITCount")}
                /\ CountOf("Empty Beds")
                     = {Total(RecordsOf(r), "TotalBeds") - Total(RecordsOf(r), "PITCount")}

\* a single record with Total Beds 100 and PIT Count 80: Utilized 80, Empty 20
C9_Witness ==
    /\ Returned
    /\ Len(df) = 1
    /\ result.bed_count_bar_fig =
        << [SPA |-> "Antelope Valley", BedStatus |-> "Utilized Beds", BedCount |-> 80],
           [SPA |-> "Antelope Valley", BedStatus |-> "Empty Beds", BedCount |-> 20] >>

-----------------------------------------------------------------------------
(* C10 *)

\* C10 as stated: whatever the dropdown hands the callback (a list of names, a
\* list holding 'ALL', a list naming regions without records, the empty list,
\* None), the call returns its five outputs and never ends in an error.
C10_UpdateIsTotal == result.status \in {"none", "ok"}

====
